---- MODULE Spec2Model ----
(***************************************************************************)
(* Model of dataset_curation/main_pipeline.py: the staged pipeline engine  *)
(* (run-only validation, resume-input validation, the twelve stages, the   *)
(* failure boundary and the cleanup in the finally block).  Collaborators  *)
(* (src.bridge_runner, src.cropping, ...) are external: each call returns  *)
(* a nondeterministic result and may or may not write its output file.     *)
(* Paths are the names of the variables that hold them in main(); the      *)
(* model assumes a configuration under which they are pairwise distinct.   *)
(***************************************************************************)
EXTENDS Integers, Sequences, FiniteSets, TLC

\* Bound: number of collaborator calls per run whose outcome is not the
\* nominal one (truthy result, output written).
MaxOffNominal == 1

\* at most this many paths resist deletion in one cleanup
MaxDeleteFailures == 1

\* ------------------------------------------------------------------ stages
valid_stages ==
    << "start", "cropping", "bridge_stage2",
       "filter_duplicates", "vlm1_recognition", "vlm2_recognition",
       "vlm_filtering", "vlm_comparison", "agreement_extraction",
       "blur_assessment", "blur_tag_filter", "final_formatting" >>

StageNames == { valid_stages[i] : i \in 1..Len(valid_stages) }

\* valid_stages.index(name)  (1-based here)
StageIndex ==
    [ name \in StageNames |->
        CHOOSE i \in 1..Len(valid_stages) : valid_stages[i] = name ]

index(name) == StageIndex[name]

\* the block that follows a stage's block in main(); after the last one the
\* try body ends and control reaches the finally block
NextBlock(s) ==
    IF index(s) = Len(valid_stages) THEN "cleanup" ELSE valid_stages[index(s) + 1]

\* ------------------------------------------------------------------- paths
IntermediateFiles ==
    { "stage1_json", "crop_definitions_path", "stage2_raw_json",
      "stage2_filtered_json", "vlm1_raw_json", "vlm2_raw_json",
      "vlm1_filtered_json", "vlm2_filtered_json", "combined_json",
      "agreed_list_txt", "agreed_json", "blur_csv",
      "tagged_json_intermediate", "restoration_json_intermediate" }

FinalFiles == { "full_dataset_final_json", "restoration_dataset_final_json" }

\* "crop_images" stands for the content of crop_image_dir: it is on disk iff
\* the directory is populated (the directory itself is created at start-up).
DetectorDirs == { "stage1_output_dir", "stage2_output_dir" }
DetectorDocs == { "expected_stage1_output", "expected_stage2_output" }

Paths == IntermediateFiles \cup FinalFiles \cup DetectorDirs \cup DetectorDocs
            \cup { "crop_images" }

\* the results document the detector leaves inside its output directory
Contents(dir) ==
    IF dir = "stage1_output_dir" THEN { "expected_stage1_output" }
    ELSE IF dir = "stage2_output_dir" THEN { "expected_stage2_output" }
    ELSE {}

\* shutil.rmtree(dir, ignore_errors=True)
rmtree(d, dir) == d \ ({dir} \cup Contents(dir))

\* shutil.move(src, dst)
move(d, src, dst) == (d \ {src}) \cup {dst}

\* ------------------------------------------------------------ collaborators
Collaborators ==
    { "run_bridge_stage1", "define_crop_regions", "create_crop_images",
      "run_bridge_stage2", "filter_duplicate_detections",
      "run_vlm_recognition_1", "run_vlm_recognition_2",
      "filter_empty_vlm_1", "filter_empty_vlm_2", "compare_and_merge_vlms",
      "identify_agreed_images", "extract_agreed_annotations",
      "run_blur_assessment", "tag_with_blur", "filter_tagged_by_blur",
      "format_final_dataset_full", "format_final_dataset_restoration" }

\* what a call returns: a truthy value (a path, a non-empty collection),
\* a falsy value other than None (False, "", an empty collection), None,
\* or it raises
Returns == { "truthy", "falsy", "None", "raise" }

Outcomes == [ ret : Returns, wrote : BOOLEAN ]
Nominal == [ ret |-> "truthy", wrote |-> TRUE ]
NotCalled == [ ret |-> "not_called", wrote |-> FALSE ]

\* a collaborator without an output file of its own (define_crop_regions)
OutcomesNoFile == { o \in Outcomes : o.wrote }

OffNominal(o) == IF o = Nominal THEN 0 ELSE 1

\* ---------------------------------------------------------- pipeline_steps
Keys ==
    { "stage1_json_temp", "stage1_json", "crop_image_dir",
      "stage2_raw_json_temp", "stage2_raw_json", "stage2_filtered_json",
      "vlm1_raw_json", "vlm2_raw_json", "vlm1_filtered_json",
      "vlm2_filtered_json", "combined_json", "agreed_list_txt", "agreed_json",
      "blur_csv", "tagged_json_intermediate", "restoration_json_intermediate",
      "full_dataset_final_json", "restoration_dataset_final_json" }

Unbound == "unbound"

VARIABLES
    start_from,        \* args.start_from
    run_only_stage,    \* args.run_only_stage ("None" when not given)
    keep,              \* config.get('keep_intermediate_files', True)
    disk0,             \* the paths on disk when the process starts
    disk,              \* the paths on disk now
    pipeline_steps,    \* key -> "unbound" | "truthy" | "falsy"
    calls,             \* collaborator -> outcome of its call, or NotCalled
    offnominal,        \* number of off-nominal outcomes so far
    pc,                \* position in main()
    error,             \* exception caught by `except Exception`, or "none"
    sys_exit,          \* code of the SystemExit in flight, or -1
    removed,           \* paths deleted by the cleanup in the finally block
    attempted,         \* paths the cleanup tried to delete
    delete_failed,     \* paths whose deletion by the cleanup failed
    exit_status,       \* exit status of the process, -1 while it runs
    current_stage_name,\* the variable of that name in main(), "unset" before
    missing_logged,    \* paths logged "Missing required input" (153, 157)
    dir_at_file        \* file paths of disk0 at which a directory exists

vars == << start_from, run_only_stage, keep, disk0, disk, pipeline_steps,
           calls, offnominal, pc, error, sys_exit, removed, attempted,
           delete_failed, exit_status, current_stage_name, missing_logged,
           dir_at_file >>

\* what the finally block records
CleanupLog == << removed, attempted, delete_failed >>

invoked == { c \in Collaborators : calls[c] # NotCalled }


\* ------------------------------------------------- run-only validation
\* variant: the ordering test is off by one
run_only_rejected_off_by_one ==
    /\ run_only_stage # "None"
    /\ index(run_only_stage) + 1 < index(start_from)

\* lines 123-133: reject a run-only stage that precedes the start stage
run_only_rejected ==
    /\ run_only_stage # "None"
    /\ index(run_only_stage) < index(start_from)

\* variant: the start stage itself is not admitted
should_run_strict(stage_name) == index(stage_name) > index(start_from)

\* should_run(stage_name), lines 141-146
should_run(stage_name) == index(stage_name) >= index(start_from)

\* ------------------------------------------------- check_required_inputs
\* the paths passed to check_and_set for a start stage, lines 160-185
RequiredFiles(stage_name) ==
    CASE stage_name = "cropping" -> { "stage1_json" }
      [] stage_name = "bridge_stage2" -> {}
      [] stage_name = "filter_duplicates" -> { "stage2_raw_json" }
      [] stage_name = "vlm1_recognition" -> { "stage2_filtered_json" }
      [] stage_name = "vlm2_recognition" ->
             { "stage2_filtered_json", "vlm1_raw_json" }
      [] stage_name = "vlm_filtering" -> { "vlm1_raw_json", "vlm2_raw_json" }
      [] stage_name = "vlm_comparison" ->
             { "vlm1_filtered_json", "vlm2_filtered_json" }
      [] stage_name = "agreement_extraction" -> { "combined_json" }
      [] stage_name = "blur_assessment" -> { "agreed_json", "agreed_list_txt" }
      [] stage_name = "blur_tag_filter" -> { "agreed_json", "blur_csv" }
      [] stage_name = "final_formatting" ->
             { "tagged_json_intermediate", "restoration_json_intermediate" }
      [] OTHER -> {}

\* the paths passed to check_dir_and_set for a start stage
RequiredDirs(stage_name) ==
    IF stage_name \in { "bridge_stage2", "vlm1_recognition",
                        "vlm2_recognition", "blur_assessment" }
    THEN { "crop_images" } ELSE {}

Required(stage_name) == RequiredFiles(stage_name) \cup RequiredDirs(stage_name)

\* check_and_set: os.path.exists(path)
check_and_set(d, path) == path \in d

\* check_dir_and_set: os.path.isdir(path) and os.listdir(path)
check_dir_and_set(d, path) == path \in d

\* the calls check_required_inputs makes for a start stage, in their order
\* (lines 160-185)
File(path) == [ kind |-> "file", path |-> path ]
Dir(path) == [ kind |-> "directory", path |-> path ]

RequiredChecks(stage_name) ==
    CASE stage_name = "cropping" -> << File("stage1_json") >>
      [] stage_name = "bridge_stage2" -> << Dir("crop_images") >>
      [] stage_name = "filter_duplicates" -> << File("stage2_raw_json") >>
      [] stage_name = "vlm1_recognition" ->
             << File("stage2_filtered_json"), Dir("crop_images") >>
      [] stage_name = "vlm2_recognition" ->
             << File("stage2_filtered_json"), Dir("crop_images"),
                File("vlm1_raw_json") >>
      [] stage_name = "vlm_filtering" ->
             << File("vlm1_raw_json"), File("vlm2_raw_json") >>
      [] stage_name = "vlm_comparison" ->
             << File("vlm1_filtered_json"), File("vlm2_filtered_json") >>
      [] stage_name = "agreement_extraction" -> << File("combined_json") >>
      [] stage_name = "blur_assessment" ->
             << File("agreed_json"), File("agreed_list_txt"),
                Dir("crop_images") >>
      [] stage_name = "blur_tag_filter" ->
             << File("agreed_json"), File("blur_csv") >>
      [] stage_name = "final_formatting" ->
             << File("tagged_json_intermediate"),
                File("restoration_json_intermediate") >>
      [] OTHER -> << >>

\* variant: the checks stop at the first missing input
RECURSIVE run_checks_first_only(_, _, _)
run_checks_first_only(d, checks, logged) ==
    IF checks = << >> \/ logged # {} THEN logged
    ELSE LET h == Head(checks)
             ok == IF h.kind = "file" THEN check_and_set(d, h.path)
                   ELSE check_dir_and_set(d, h.path)
         IN  run_checks_first_only(d, Tail(checks),
                                   IF ok THEN logged ELSE logged \cup { h.path })

\* the paths the checks log as missing: every check is made, whatever the
\* earlier ones found (lines 153, 157)
RECURSIVE run_checks(_, _, _)
run_checks(d, checks, logged) ==
    IF checks = << >> THEN logged
    ELSE LET h == Head(checks)
             ok == IF h.kind = "file" THEN check_and_set(d, h.path)
                   ELSE check_dir_and_set(d, h.path)
         IN  run_checks(d, Tail(checks),
                        IF ok THEN logged ELSE logged \cup { h.path })

\* variant: the directory checks do not clear required_ok
required_ok_files_only(d, stage_name) ==
    \A f \in RequiredFiles(stage_name) : check_and_set(d, f)

\* required_ok after all the checks of the start stage
required_ok(d, stage_name) ==
    /\ \A f \in RequiredFiles(stage_name) : check_and_set(d, f)
    /\ \A g \in RequiredDirs(stage_name) : check_dir_and_set(d, g)

\* ------------------------------------------------------------ time_step
\* variant: the `result is None` test is missing
time_step_without_none_test(o) ==
    IF o.ret = "raise" THEN "CollaboratorError" ELSE "ok"

\* lines 20-31: the collaborator's exception propagates, a None result
\* raises RuntimeError, every other result is returned
time_step(o) ==
    IF o.ret = "raise" THEN "CollaboratorError"
    ELSE IF o.ret = "None" THEN "RuntimeError"
    ELSE "ok"

\* ------------------------------------------------------------- cleanup
\* variant: the final documents are listed among the files to remove
files_to_remove_with_finals ==
    << "stage1_json", "stage2_raw_json", "stage2_filtered_json",
       "vlm1_raw_json", "vlm2_raw_json", "vlm1_filtered_json",
       "vlm2_filtered_json", "combined_json", "agreed_list_txt", "agreed_json",
       "blur_csv", "tagged_json_intermediate", "restoration_json_intermediate",
       "full_dataset_final_json", "restoration_dataset_final_json" >>

\* lines 456-461, in the order of the list
files_to_remove ==
    << "stage1_json", "stage2_raw_json", "stage2_filtered_json",
       "vlm1_raw_json", "vlm2_raw_json", "vlm1_filtered_json",
       "vlm2_filtered_json", "combined_json", "agreed_list_txt", "agreed_json",
       "blur_csv", "tagged_json_intermediate", "restoration_json_intermediate" >>

\* line 462
dirs_to_remove == << "stage1_output_dir", "stage2_output_dir" >>

Range(seq) == { seq[i] : i \in DOMAIN seq }

\* the finally block before its loops: the disk, the paths it has tried to
\* delete, those it could not delete, whether an exception has left a loop
CleanupStart(d) ==
    [ disk |-> d, attempted |-> {}, failed |-> {}, raised |-> FALSE ]

\* variant: no try around os.remove, the first OSError ends the cleanup
remove_files_no_try(files, st, fails) ==
    LET existing == { i \in DOMAIN files : files[i] \in st.disk }
        raising  == { i \in existing : files[i] \in fails }
        reached  == { i \in existing : \A j \in raising : i <= j }
        tried    == { files[i] : i \in reached }
    IN  [ disk      |-> st.disk \ (tried \ fails),
          attempted |-> st.attempted \cup tried,
          failed    |-> st.failed \cup (tried \cap fails),
          raised    |-> st.raised \/ raising # {} ]

\* the loop of lines 463-466 over `files`, os.remove raising OSError for the
\* paths in `fails`: an entry that does not exist is passed over; an
\* OSError is caught and logged as a warning, so every entry is reached
\* whatever happened to those before it (the entries are distinct paths)
remove_files(files, st, fails) ==
    LET existing == { i \in DOMAIN files : files[i] \in st.disk }
        reached  == existing
        tried    == { files[i] : i \in reached }
    IN  [ disk      |-> st.disk \ (tried \ fails),
          attempted |-> st.attempted \cup tried,
          failed    |-> st.failed \cup (tried \cap fails),
          raised    |-> st.raised ]

\* the loop of lines 467-470 over `dirs`: shutil.rmtree(ignore_errors=True)
\* raises nothing; what it cannot delete (the paths in `fails`, and a
\* directory that still has an entry) stays
remove_dirs(dirs, st, fails) ==
    LET tried == { dirs[i] : i \in { j \in DOMAIN dirs : dirs[j] \in st.disk } }
        inside(d_path) == Contents(d_path) \cap st.disk
        stays(d_path) ==
            IF d_path \in fails \/ inside(d_path) \cap fails # {}
            THEN { d_path } \cup (inside(d_path) \cap fails)
            ELSE {}
        gone == UNION { ({ d_path } \cup inside(d_path)) \ stays(d_path) :
                            d_path \in tried }
    IN  [ disk      |-> st.disk \ gone,
          attempted |-> st.attempted \cup tried,
          failed    |-> st.failed \cup UNION { stays(d_path) : d_path \in tried },
          raised    |-> st.raised ]

\* ---------------------------------------------------------------- Init
\* Disks a process can start on: nothing yet, what a full run that kept its
\* intermediates leaves, what a full run that discarded them leaves; the
\* inputs required by the start stage are present or absent independently.
Fresh == {}
Kept == IntermediateFiles \cup FinalFiles \cup DetectorDirs \cup { "crop_images" }
Cleaned == { "crop_definitions_path", "crop_images" } \cup FinalFiles
DiskShapes == { Fresh, Kept, Cleaned }

InitRun ==
    /\ start_from \in StageNames
    /\ run_only_stage \in StageNames \cup { "None" }
    /\ keep \in BOOLEAN
    /\ \E shape \in DiskShapes : \E have \in SUBSET Required(start_from) :
           disk0 = (shape \ Required(start_from)) \cup have
    /\ disk = disk0
    /\ current_stage_name = "unset"
    /\ missing_logged = {}
    /\ pipeline_steps = [ k \in Keys |-> Unbound ]
    /\ calls = [ c \in Collaborators |-> NotCalled ]
    /\ offnominal = 0
    /\ pc = "args"
    /\ error = "none"
    /\ sys_exit = -1
    /\ removed = {}
    /\ attempted = {}
    /\ delete_failed = {}
    /\ exit_status = -1

\* every path on disk is of the kind the code expects
Init == InitRun /\ dir_at_file = {}

\* as Init, or with a directory at the path of one required input file
InitDirAtFile ==
    /\ InitRun
    /\ dir_at_file \in
          { {} } \cup { {f} : f \in RequiredFiles(start_from) \cap disk0 }

\* ------------------------------------------------------ control helpers
\* variant: no finally block, a caught exception ends the run at once
Abort_without_finally(err) == /\ pc' = "done" /\ error' = err /\ UNCHANGED sys_exit

\* variant: a caught exception is turned into a failure exit status
Abort_with_exit_1(err) == /\ pc' = "cleanup" /\ error' = err /\ sys_exit' = 1

\* an exception reaches `except Exception` (line 449), then the finally block
Abort(err) == /\ pc' = "cleanup" /\ error' = err /\ UNCHANGED sys_exit

\* sys.exit(code) inside the try: SystemExit passes `except Exception`
\* and the finally block runs
SysExit(code) == /\ pc' = "cleanup" /\ sys_exit' = code /\ UNCHANGED error

Goto(block) == /\ pc' = block /\ UNCHANGED << error, sys_exit >>

\* variant: the run-only exit that closes a stage's block is missing
Finish_without_exit(s) == Goto(NextBlock(s))

\* the `if args.run_only_stage == current_stage_name: sys.exit(0)` that
\* closes a stage's block
Finish(s) == IF run_only_stage = s THEN SysExit(0) ELSE Goto(NextBlock(s))

\* the path a skipped stage binds to a key (lines 218-422)
PathOfKey(k) == IF k = "crop_image_dir" THEN "crop_images" ELSE k

\* variant: a skipped stage's path is adopted only when it exists
Adopt_only_existing(ps, test, keys) ==
    IF ps[test] = Unbound
    THEN [ k \in Keys |->
             IF k \in keys /\ PathOfKey(k) \in disk THEN "truthy" ELSE ps[k] ]
    ELSE ps

\* `elif key not in pipeline_steps: pipeline_steps[...] = <default path>`
Adopt(ps, test, keys) ==
    IF ps[test] = Unbound
    THEN [ k \in Keys |-> IF k \in keys THEN "truthy" ELSE ps[k] ]
    ELSE ps

Config == << start_from, run_only_stage, keep, disk0, dir_at_file >>

\* ---------------------------------------------------------- pre-flight
\* lines 123-139
ValidateRunOnly ==
    /\ pc = "args"
    /\ IF run_only_rejected
       THEN /\ pc' = "done"
            /\ exit_status' = 1
       ELSE /\ pc' = "check"
            /\ UNCHANGED exit_status
    /\ UNCHANGED << Config, disk, pipeline_steps, calls, offnominal, error,
                    sys_exit, CleanupLog, current_stage_name, missing_logged >>

\* lines 192-194 with check_required_inputs, lines 148-188
CheckRequiredInputs ==
    /\ pc = "check"
    /\ IF start_from # "start" /\ ~required_ok(disk, start_from)
       THEN SysExit(1)
       ELSE Goto("start")
    /\ missing_logged' = IF start_from # "start"
                         THEN run_checks(disk, RequiredChecks(start_from), {})
                         ELSE {}
    /\ UNCHANGED << Config, disk, pipeline_steps, calls, offnominal, CleanupLog,
                    exit_status, current_stage_name >>


\* -------------------------------------------------------------- stages
\* variant: a detector stage that goes on when no results document is found
BridgeStage_never_fails(s, c, reads, tempkey, dir, expected, target, key) ==
    /\ pc = s
    /\ current_stage_name' = s
    /\ UNCHANGED << Config, CleanupLog, exit_status, missing_logged >>
    /\ IF ~should_run(s)
       THEN /\ pipeline_steps' = Adopt(pipeline_steps, key, {key})
            /\ Goto(NextBlock(s))
            /\ UNCHANGED << disk, calls, offnominal >>
       ELSE IF \E k \in reads : pipeline_steps[k] = Unbound
       THEN /\ Abort("KeyError")
            /\ UNCHANGED << disk, calls, offnominal, pipeline_steps >>
       ELSE \E o \in Outcomes :
            LET d1 == IF o.wrote THEN disk \cup {dir, expected} ELSE disk
                ps1 == [ pipeline_steps EXCEPT ![tempkey] = o.ret ]
                moved == move(d1, expected, target)
            IN  /\ offnominal + OffNominal(o) <= MaxOffNominal
                /\ offnominal' = offnominal + OffNominal(o)
                /\ calls' = [ calls EXCEPT ![c] = o ]
                /\ IF time_step(o) # "ok"
                   THEN /\ Abort(time_step(o))
                        /\ disk' = d1
                        /\ UNCHANGED pipeline_steps
                   ELSE IF expected \in d1
                   THEN /\ disk' = IF ~keep THEN rmtree(moved, dir) ELSE moved
                        /\ pipeline_steps' = [ ps1 EXCEPT ![key] = "truthy" ]
                        /\ Finish(s)
                   ELSE IF target \in d1
                   THEN /\ disk' = d1
                        /\ pipeline_steps' = [ ps1 EXCEPT ![key] = "truthy" ]
                        /\ Finish(s)
                   ELSE /\ disk' = d1
                        /\ pipeline_steps' = [ ps1 EXCEPT ![key] = "truthy" ]
                        /\ Finish(s)

\* A detector stage: 'start' (lines 196-218) and 'bridge_stage2'
\* (lines 254-274).  run_bridge writes its results document into its
\* output directory; the engine moves it to the stage's target path.
BridgeStage(s, c, reads, tempkey, dir, expected, target, key) ==
    /\ pc = s
    /\ current_stage_name' = s
    /\ UNCHANGED << Config, CleanupLog, exit_status, missing_logged >>
    /\ IF ~should_run(s)
       THEN /\ pipeline_steps' = Adopt(pipeline_steps, key, {key})
            /\ Goto(NextBlock(s))
            /\ UNCHANGED << disk, calls, offnominal >>
       ELSE IF \E k \in reads : pipeline_steps[k] = Unbound
       THEN /\ Abort("KeyError")
            /\ UNCHANGED << disk, calls, offnominal, pipeline_steps >>
       ELSE \E o \in Outcomes :
            LET d1 == IF o.wrote THEN disk \cup {dir, expected} ELSE disk
                ps1 == [ pipeline_steps EXCEPT ![tempkey] = o.ret ]
                moved == move(d1, expected, target)
            IN  /\ offnominal + OffNominal(o) <= MaxOffNominal
                /\ offnominal' = offnominal + OffNominal(o)
                /\ calls' = [ calls EXCEPT ![c] = o ]
                /\ IF time_step(o) # "ok"
                   THEN /\ Abort(time_step(o))
                        /\ disk' = d1
                        /\ UNCHANGED pipeline_steps
                   ELSE IF expected \in d1
                   THEN /\ disk' = IF ~keep THEN rmtree(moved, dir) ELSE moved
                        /\ pipeline_steps' = [ ps1 EXCEPT ![key] = "truthy" ]
                        /\ Finish(s)
                   ELSE IF target \in d1
                   THEN /\ disk' = d1
                        /\ pipeline_steps' = [ ps1 EXCEPT ![key] = "truthy" ]
                        /\ Finish(s)
                   ELSE /\ disk' = d1
                        /\ pipeline_steps' = ps1
                        /\ Abort("RuntimeError")

\* A stage with one collaborator whose result is bound to `key`:
\* filter_duplicates (276-289), vlm1_recognition (291-306),
\* vlm2_recognition (308-323), vlm_comparison (347-359)
SimpleStage(s, c, reads, key, path) ==
    /\ pc = s
    /\ current_stage_name' = s
    /\ UNCHANGED << Config, CleanupLog, exit_status, missing_logged >>
    /\ IF ~should_run(s)
       THEN /\ pipeline_steps' = Adopt(pipeline_steps, key, {key})
            /\ Goto(NextBlock(s))
            /\ UNCHANGED << disk, calls, offnominal >>
       ELSE IF \E k \in reads : pipeline_steps[k] = Unbound
       THEN /\ Abort("KeyError")
            /\ UNCHANGED << disk, calls, offnominal, pipeline_steps >>
       ELSE \E o \in Outcomes :
            /\ offnominal + OffNominal(o) <= MaxOffNominal
            /\ offnominal' = offnominal + OffNominal(o)
            /\ calls' = [ calls EXCEPT ![c] = o ]
            /\ disk' = IF o.wrote THEN disk \cup {path} ELSE disk
            /\ IF time_step(o) # "ok"
               THEN /\ Abort(time_step(o))
                    /\ UNCHANGED pipeline_steps
               ELSE /\ pipeline_steps' = [ pipeline_steps EXCEPT ![key] = o.ret ]
                    /\ Finish(s)

\* A composite stage: two collaborators called in sequence, each result
\* bound to its key, one run-only exit after the second:
\* vlm_filtering (326-344), agreement_extraction (362-381),
\* blur_tag_filter (404-422), final_formatting (425-440).  `adopted` is
\* the set of keys the elif branch binds (none for final_formatting).
PairStage(s, c1, reads1, key1, path1, c2, reads2, key2, path2, adopted) ==
    /\ pc = s
    /\ current_stage_name' = s
    /\ UNCHANGED << Config, CleanupLog, exit_status, missing_logged >>
    /\ IF ~should_run(s)
       THEN /\ pipeline_steps' = Adopt(pipeline_steps, key1, adopted)
            /\ Goto(NextBlock(s))
            /\ UNCHANGED << disk, calls, offnominal >>
       ELSE IF \E k \in reads1 : pipeline_steps[k] = Unbound
       THEN /\ Abort("KeyError")
            /\ UNCHANGED << disk, calls, offnominal, pipeline_steps >>
       ELSE \E o1 \in Outcomes :
            LET d1 == IF o1.wrote THEN disk \cup {path1} ELSE disk
                ps1 == [ pipeline_steps EXCEPT ![key1] = o1.ret ]
            IN  /\ offnominal + OffNominal(o1) <= MaxOffNominal
                /\ IF time_step(o1) # "ok"
                   THEN /\ Abort(time_step(o1))
                        /\ offnominal' = offnominal + OffNominal(o1)
                        /\ calls' = [ calls EXCEPT ![c1] = o1 ]
                        /\ disk' = d1
                        /\ UNCHANGED pipeline_steps
                   ELSE IF \E k \in reads2 : ps1[k] = Unbound
                   THEN /\ Abort("KeyError")
                        /\ offnominal' = offnominal + OffNominal(o1)
                        /\ calls' = [ calls EXCEPT ![c1] = o1 ]
                        /\ disk' = d1
                        /\ pipeline_steps' = ps1
                   ELSE \E o2 \in Outcomes :
                        /\ offnominal + OffNominal(o1) + OffNominal(o2)
                              <= MaxOffNominal
                        /\ offnominal' =
                              offnominal + OffNominal(o1) + OffNominal(o2)
                        /\ calls' = [ calls EXCEPT ![c1] = o1, ![c2] = o2 ]
                        /\ disk' = IF o2.wrote THEN d1 \cup {path2} ELSE d1
                        /\ IF time_step(o2) # "ok"
                           THEN /\ Abort(time_step(o2))
                                /\ pipeline_steps' = ps1
                           ELSE /\ pipeline_steps' = [ ps1 EXCEPT ![key2] = o2.ret ]
                                /\ Finish(s)

\* lines 196-218
Stage_start ==
    BridgeStage("start", "run_bridge_stage1", {}, "stage1_json_temp",
                "stage1_output_dir", "expected_stage1_output",
                "stage1_json", "stage1_json")

\* lines 221-251: define_crop_regions, then (unless run-only 'cropping'
\* exits first, line 236) create_crop_images when the definitions are
\* non-empty
Stage_cropping ==
    /\ pc = "cropping"
    /\ current_stage_name' = "cropping"
    /\ UNCHANGED << Config, CleanupLog, exit_status, missing_logged >>
    /\ IF ~should_run("cropping")
       THEN /\ pipeline_steps' =
                   Adopt(pipeline_steps, "crop_image_dir", {"crop_image_dir"})
            /\ Goto(NextBlock("cropping"))
            /\ UNCHANGED << disk, calls, offnominal >>
       ELSE IF pipeline_steps["stage1_json"] = Unbound
       THEN /\ Abort("KeyError")
            /\ UNCHANGED << disk, calls, offnominal, pipeline_steps >>
       ELSE \E o1 \in OutcomesNoFile :
            LET crop_definitions == o1.ret
                d1 == IF crop_definitions = "truthy"
                      THEN disk \cup { "crop_definitions_path" } ELSE disk
            IN  /\ offnominal + OffNominal(o1) <= MaxOffNominal
                /\ IF time_step(o1) # "ok"
                   THEN /\ Abort(time_step(o1))
                        /\ offnominal' = offnominal + OffNominal(o1)
                        /\ calls' = [ calls EXCEPT !["define_crop_regions"] = o1 ]
                        /\ UNCHANGED << disk, pipeline_steps >>
                   ELSE IF run_only_stage = "cropping"
                   THEN /\ SysExit(0)
                        /\ offnominal' = offnominal + OffNominal(o1)
                        /\ calls' = [ calls EXCEPT !["define_crop_regions"] = o1 ]
                        /\ disk' = d1
                        /\ UNCHANGED pipeline_steps
                   ELSE IF crop_definitions # "truthy"
                   THEN /\ Goto(NextBlock("cropping"))
                        /\ offnominal' = offnominal + OffNominal(o1)
                        /\ calls' = [ calls EXCEPT !["define_crop_regions"] = o1 ]
                        /\ disk' = d1
                        /\ UNCHANGED pipeline_steps
                   ELSE \E o2 \in Outcomes :
                        /\ offnominal + OffNominal(o1) + OffNominal(o2)
                              <= MaxOffNominal
                        /\ offnominal' =
                              offnominal + OffNominal(o1) + OffNominal(o2)
                        /\ calls' = [ calls EXCEPT !["define_crop_regions"] = o1,
                                                   !["create_crop_images"] = o2 ]
                        /\ disk' = IF o2.wrote THEN d1 \cup { "crop_images" } ELSE d1
                        /\ IF time_step(o2) # "ok"
                           THEN /\ Abort(time_step(o2))
                                /\ UNCHANGED pipeline_steps
                           ELSE /\ pipeline_steps' =
                                     [ pipeline_steps EXCEPT !["crop_image_dir"] = "truthy" ]
                                /\ Goto(NextBlock("cropping"))

\* lines 254-274
Stage_bridge_stage2 ==
    BridgeStage("bridge_stage2", "run_bridge_stage2", { "crop_image_dir" },
                "stage2_raw_json_temp", "stage2_output_dir",
                "expected_stage2_output", "stage2_raw_json", "stage2_raw_json")

\* lines 276-289
Stage_filter_duplicates ==
    SimpleStage("filter_duplicates", "filter_duplicate_detections",
                { "stage2_raw_json" }, "stage2_filtered_json",
                "stage2_filtered_json")

\* lines 291-306
Stage_vlm1_recognition ==
    SimpleStage("vlm1_recognition", "run_vlm_recognition_1",
                { "stage2_filtered_json", "crop_image_dir" },
                "vlm1_raw_json", "vlm1_raw_json")

\* variant: the second recognition result is stored under the first's key
Stage_vlm2_recognition_wrong_key ==
    SimpleStage("vlm2_recognition", "run_vlm_recognition_2",
                { "stage2_filtered_json", "crop_image_dir" },
                "vlm1_raw_json", "vlm2_raw_json")

\* lines 308-323
Stage_vlm2_recognition ==
    SimpleStage("vlm2_recognition", "run_vlm_recognition_2",
                { "stage2_filtered_json", "crop_image_dir" },
                "vlm2_raw_json", "vlm2_raw_json")

\* lines 326-344
Stage_vlm_filtering ==
    PairStage("vlm_filtering",
              "filter_empty_vlm_1", { "vlm1_raw_json" },
              "vlm1_filtered_json", "vlm1_filtered_json",
              "filter_empty_vlm_2", { "vlm2_raw_json" },
              "vlm2_filtered_json", "vlm2_filtered_json",
              { "vlm1_filtered_json", "vlm2_filtered_json" })

\* lines 347-359
Stage_vlm_comparison ==
    SimpleStage("vlm_comparison", "compare_and_merge_vlms",
                { "vlm1_filtered_json", "vlm2_filtered_json" },
                "combined_json", "combined_json")

\* lines 362-381
Stage_agreement_extraction ==
    PairStage("agreement_extraction",
              "identify_agreed_images", { "combined_json" },
              "agreed_list_txt", "agreed_list_txt",
              "extract_agreed_annotations",
              { "combined_json", "agreed_list_txt" },
              "agreed_json", "agreed_json",
              { "agreed_list_txt", "agreed_json" })

\* lines 384-401: utils.read_text_list may return None (line 388), which
\* raises before the blur scorer is called
Stage_blur_assessment ==
    \/ /\ pc = "blur_assessment"
       /\ should_run("blur_assessment")
       /\ pipeline_steps["agreed_list_txt"] # Unbound
       /\ offnominal + 1 <= MaxOffNominal
       /\ offnominal' = offnominal + 1
       /\ Abort("RuntimeError")
       /\ current_stage_name' = "blur_assessment"
       /\ UNCHANGED << Config, disk, pipeline_steps, calls, CleanupLog, missing_logged,
                       exit_status >>
    \/ SimpleStage("blur_assessment", "run_blur_assessment",
                   { "agreed_list_txt", "crop_image_dir" },
                   "blur_csv", "blur_csv")

\* lines 404-422
Stage_blur_tag_filter ==
    PairStage("blur_tag_filter",
              "tag_with_blur", { "agreed_json", "blur_csv" },
              "tagged_json_intermediate", "tagged_json_intermediate",
              "filter_tagged_by_blur", { "tagged_json_intermediate" },
              "restoration_json_intermediate", "restoration_json_intermediate",
              { "tagged_json_intermediate", "restoration_json_intermediate" })

\* lines 425-440
Stage_final_formatting ==
    PairStage("final_formatting",
              "format_final_dataset_full", { "tagged_json_intermediate" },
              "full_dataset_final_json", "full_dataset_final_json",
              "format_final_dataset_restoration",
              { "restoration_json_intermediate" },
              "restoration_dataset_final_json", "restoration_dataset_final_json",
              {})

\* -------------------------------------------------------- finally block
\* lines 452-474: the cleanup, then the process ends: with the code of the
\* SystemExit in flight if there is one, with 0 otherwise (a caught
\* exception is only logged, line 450)
\* `fails`: the paths whose deletion fails; os.remove of a path that is a
\* directory raises OSError too
CleanupWith(fails) ==
    /\ pc = "cleanup"
    /\ \E after_files \in
           { IF ~keep
             THEN remove_files(files_to_remove, CleanupStart(disk),
                               fails \cup dir_at_file)
             ELSE CleanupStart(disk) } :
       \E st \in
           { IF ~keep /\ ~after_files.raised
             THEN remove_dirs(dirs_to_remove, after_files, fails)
             ELSE after_files } :
           /\ disk' = st.disk
           /\ removed' = disk \ st.disk
           /\ attempted' = st.attempted
           /\ delete_failed' = st.failed
           /\ exit_status' = IF st.raised THEN 1
                             ELSE IF sys_exit >= 0 THEN sys_exit ELSE 0
    /\ pc' = "done"
    /\ UNCHANGED << Config, pipeline_steps, calls, offnominal, error, sys_exit,
                    current_stage_name, missing_logged >>

\* variant: the cleanup does not look at keep_intermediate_files
Cleanup_unguarded ==
    /\ pc = "cleanup"
    /\ \E after_files \in
           { remove_files(files_to_remove, CleanupStart(disk), dir_at_file) } :
       \E st \in { remove_dirs(dirs_to_remove, after_files, {}) } :
           /\ disk' = st.disk
           /\ removed' = disk \ st.disk
           /\ attempted' = st.attempted
           /\ delete_failed' = st.failed
           /\ exit_status' = IF sys_exit >= 0 THEN sys_exit ELSE 0
    /\ pc' = "done"
    /\ UNCHANGED << Config, pipeline_steps, calls, offnominal, error, sys_exit,
                    current_stage_name, missing_logged >>

\* the finally block when every deletion succeeds
Cleanup == CleanupWith({})

Next ==
    \/ ValidateRunOnly
    \/ CheckRequiredInputs
    \/ Stage_start
    \/ Stage_cropping
    \/ Stage_bridge_stage2
    \/ Stage_filter_duplicates
    \/ Stage_vlm1_recognition
    \/ Stage_vlm2_recognition
    \/ Stage_vlm_filtering
    \/ Stage_vlm_comparison
    \/ Stage_agreement_extraction
    \/ Stage_blur_assessment
    \/ Stage_blur_tag_filter
    \/ Stage_final_formatting
    \/ Cleanup

Spec == Init /\ [][Next]_vars

\* the subsets of S with at most n elements
RECURSIVE SubsetsUpTo(_, _)
SubsetsUpTo(S, n) ==
    IF n = 0 THEN { {} }
    ELSE LET smaller == SubsetsUpTo(S, n - 1)
         IN  smaller \cup { t \cup { p } : t \in smaller, p \in S }

\* the paths whose deletion is let fail: the first, a middle and the last
\* entry of files_to_remove, the first entry of dirs_to_remove, and the
\* document inside the second
FailCandidates ==
    { files_to_remove[1], files_to_remove[8],
      files_to_remove[Len(files_to_remove)],
      dirs_to_remove[1] } \cup Contents(dirs_to_remove[2])

\* those of them on disk d
Deletable(d) == FailCandidates \cap d

\* the finally block when some paths cannot be deleted (permissions, a
\* file in use): os.remove raises OSError for them, rmtree leaves them
CleanupDeleteFails ==
    /\ ~keep
    /\ \E fails \in SubsetsUpTo(Deletable(disk), MaxDeleteFailures) \ { {} } :
           CleanupWith(fails)

NextDeleteFails == Next \/ CleanupDeleteFails

\* runs that discard their intermediates: from any stage to the end, or
\* of the start stage alone
InitDiscard ==
    /\ Init
    /\ ~keep
    /\ run_only_stage \in { "None", start_from }

\* the runs in which deletions may fail
DeleteFailSpec == InitDiscard /\ [][NextDeleteFails]_vars

\* the runs that may find a directory where a required file is expected
DirAtFileSpec == InitDirAtFile /\ [][Next]_vars

TypeOK ==
    /\ start_from \in StageNames
    /\ run_only_stage \in StageNames \cup { "None" }
    /\ keep \in BOOLEAN
    /\ disk0 \subseteq Paths
    /\ disk \subseteq Paths
    /\ pipeline_steps \in [ Keys -> { Unbound, "truthy", "falsy" } ]
    /\ calls \in [ Collaborators -> Outcomes \cup { NotCalled } ]
    /\ offnominal \in 0..MaxOffNominal
    /\ pc \in StageNames \cup { "args", "check", "cleanup", "done" }
    /\ error \in { "none", "RuntimeError", "KeyError", "CollaboratorError" }
    /\ sys_exit \in { -1, 0, 1 }
    /\ removed \subseteq Paths
    /\ attempted \subseteq Paths
    /\ delete_failed \subseteq attempted \cup DetectorDocs
    /\ exit_status \in { -1, 0, 1 }
    /\ current_stage_name \in StageNames \cup { "unset" }
    /\ missing_logged \subseteq Paths
    /\ dir_at_file \subseteq disk0


\* ---------------------------------------------------- stage membership
\* the collaborators each stage's block calls, lines 196-440
CollaboratorsOf(stage_name) ==
    CASE stage_name = "start" -> { "run_bridge_stage1" }
      [] stage_name = "cropping" ->
             { "define_crop_regions", "create_crop_images" }
      [] stage_name = "bridge_stage2" -> { "run_bridge_stage2" }
      [] stage_name = "filter_duplicates" -> { "filter_duplicate_detections" }
      [] stage_name = "vlm1_recognition" -> { "run_vlm_recognition_1" }
      [] stage_name = "vlm2_recognition" -> { "run_vlm_recognition_2" }
      [] stage_name = "vlm_filtering" ->
             { "filter_empty_vlm_1", "filter_empty_vlm_2" }
      [] stage_name = "vlm_comparison" -> { "compare_and_merge_vlms" }
      [] stage_name = "agreement_extraction" ->
             { "identify_agreed_images", "extract_agreed_annotations" }
      [] stage_name = "blur_assessment" -> { "run_blur_assessment" }
      [] stage_name = "blur_tag_filter" ->
             { "tag_with_blur", "filter_tagged_by_blur" }
      [] stage_name = "final_formatting" ->
             { "format_final_dataset_full", "format_final_dataset_restoration" }

StageOfCollaborator ==
    [ c \in Collaborators |-> CHOOSE s \in StageNames : c \in CollaboratorsOf(s) ]

StageOf(c) == StageOfCollaborator[c]

CompositeStages ==
    { "cropping", "vlm_filtering", "agreement_extraction", "blur_tag_filter",
      "final_formatting" }

\* collaborators whose call comes after c's in main()
CallsAfter ==
  [ c \in Collaborators |->
    { c2 \in Collaborators :
        \/ index(StageOf(c2)) > index(StageOf(c))
        \/ << c, c2 >> \in
             { << "define_crop_regions", "create_crop_images" >>,
               << "filter_empty_vlm_1", "filter_empty_vlm_2" >>,
               << "identify_agreed_images", "extract_agreed_annotations" >>,
               << "tag_with_blur", "filter_tagged_by_blur" >>,
               << "format_final_dataset_full",
                  "format_final_dataset_restoration" >> } } ]

CalledAfter(c) == CallsAfter[c]

Stopped == pc \in { "cleanup", "done" }

\* ================================================================ claims

C2_MissingInputsRejected ==
    ( /\ start_from # "start"
      /\ ~(Required(start_from) \subseteq disk0) ) =>
        /\ invoked = {}
        /\ pc = "done" => exit_status = 1

\* a resume run that passed the run-only check and was ended by the input check
C2_Witness ==
    /\ pc = "done"
    /\ start_from = "blur_assessment"
    /\ run_only_stage = "None"
    /\ "crop_images" \notin disk0
    /\ { "agreed_json", "agreed_list_txt" } \subseteq disk0
    /\ exit_status = 1

\* C3: a run-only stage placed before the start stage is rejected with
\* exit status 1 before any collaborator is invoked; so whenever a
\* collaborator has been invoked with run_only set, run_only is not before
\* start_from.
C3_RunOnlyOrderRejected ==
    /\ ( /\ run_only_stage # "None"
         /\ index(run_only_stage) < index(start_from) ) =>
            /\ invoked = {}
            /\ pc \in { "args", "done" }
            /\ pc = "done" => exit_status = 1
    /\ ( invoked # {} /\ run_only_stage # "None" ) =>
            index(run_only_stage) >= index(start_from)

\* Scenario D: run-only filter_duplicates with start-from vlm1_recognition
C3_Witness ==
    /\ pc = "done"
    /\ run_only_stage = "filter_duplicates"
    /\ start_from = "vlm1_recognition"
    /\ exit_status = 1
    /\ invoked = {}

\* C4: Scenario B: in a finished run in which the crop-region definer
\* returned an empty collection (and the run was not run-only 'cropping'),
\* the crop-image materializer was not invoked, no failure was raised and
\* the second-pass detector was invoked.
C4_ScenarioB ==
    ( /\ pc = "done"
      /\ calls["define_crop_regions"].ret = "falsy"
      /\ run_only_stage # "cropping" ) =>
        /\ calls["create_crop_images"] = NotCalled
        /\ error = "none"
        /\ calls["run_bridge_stage2"] # NotCalled

\* C5: Scenario C: with keep_intermediate_files false, after a full run
\* from 'start' in which every collaborator succeeds, no intermediate file
\* and neither detector output directory is on disk, and both final
\* dataset documents are.
C5_ScenarioC ==
    ( /\ pc = "done"
      /\ ~keep
      /\ start_from = "start"
      /\ run_only_stage = "None"
      /\ error = "none"
      /\ \A c \in Collaborators : calls[c] = Nominal ) =>
        /\ disk \cap (IntermediateFiles \cup DetectorDirs \cup DetectorDocs) = {}
        /\ FinalFiles \subseteq disk

\* the intermediate files and directories the cleanup is documented to remove
EnumeratedIntermediates ==
    (IntermediateFiles \ { "crop_definitions_path" })
        \cup DetectorDirs \cup DetectorDocs

\* C6: on every exit path the cleanup deletes only enumerated intermediate
\* files and directories, deletes nothing when intermediates are kept, and
\* never removes a final dataset document: one that is on disk stays there.
C6_CleanupSparesFinals ==
    /\ removed \subseteq EnumeratedIntermediates
    /\ removed \cap FinalFiles = {}
    /\ keep => removed = {}
    /\ (FinalFiles \cap disk0) \subseteq disk

\* a failed run whose cleanup deleted intermediates, the finals of an earlier
\* run still on disk
C6_Witness ==
    /\ pc = "done"
    /\ ~keep
    /\ error # "none"
    /\ "stage1_json" \in removed
    /\ FinalFiles \subseteq disk

\* C7: Scenario A: start_from = run_only_stage = vlm1_recognition with the
\* filtered second-pass results and a populated crop directory on disk and
\* a succeeding model-1 runner: when the process ends exactly that one
\* collaborator was invoked, its output document is on disk and the exit
\* status is 0.
C7_ScenarioA ==
    ( /\ pc = "done"
      /\ start_from = "vlm1_recognition"
      /\ run_only_stage = "vlm1_recognition"
      /\ { "stage2_filtered_json", "crop_images" } \subseteq disk0
      /\ calls["run_vlm_recognition_1"] = Nominal ) =>
        /\ invoked = { "run_vlm_recognition_1" }
        /\ "vlm1_raw_json" \in disk
        /\ exit_status = 0

\* C8: in a run with an accepted run-only stage r, only collaborators of
\* stage r are invoked.
C8_RunOnlyExactlyOneStage ==
    ( /\ run_only_stage # "None"
      /\ index(run_only_stage) >= index(start_from) ) =>
        invoked \subseteq CollaboratorsOf(run_only_stage)

\* C9: when a run ends by request after a composite run-only stage, both
\* sub-steps of that stage were executed (the crop-image materializer only
\* when the crop definitions were non-empty).
C9_CompositeBothSubsteps ==
    ( /\ pc = "done"
      /\ run_only_stage \in CompositeStages
      /\ sys_exit = 0 ) =>
        \A c \in CollaboratorsOf(run_only_stage) :
            \/ c \in invoked
            \/ /\ c = "create_crop_images"
               /\ calls["define_crop_regions"].ret # "truthy"

\* C10: with an accepted run-only stage r, no collaborator of a stage
\* after r is ever invoked, and when stage r was executed and no failure
\* was raised the process ends with exit status 0.
C10_RunOnlyStopsAfterStage ==
    ( /\ run_only_stage # "None"
      /\ index(run_only_stage) >= index(start_from) ) =>
        /\ \A c \in invoked : index(StageOf(c)) <= index(run_only_stage)
        /\ ( /\ pc = "done"
             /\ error = "none"
             /\ CollaboratorsOf(run_only_stage) \cap invoked # {} ) =>
                 exit_status = 0

\* run-only vlm_filtering, started two stages earlier, ended by request
C10_Witness ==
    /\ pc = "done"
    /\ start_from = "vlm1_recognition"
    /\ run_only_stage = "vlm_filtering"
    /\ calls["filter_empty_vlm_2"] = Nominal
    /\ calls["compare_and_merge_vlms"] = NotCalled
    /\ sys_exit = 0
    /\ exit_status = 0


\* the artifacts each stage leaves on disk, lines 196-440
ProducedBy(stage_name) ==
    CASE stage_name = "start" -> { "stage1_json" }
      [] stage_name = "cropping" -> { "crop_definitions_path", "crop_images" }
      [] stage_name = "bridge_stage2" -> { "stage2_raw_json" }
      [] stage_name = "filter_duplicates" -> { "stage2_filtered_json" }
      [] stage_name = "vlm1_recognition" -> { "vlm1_raw_json" }
      [] stage_name = "vlm2_recognition" -> { "vlm2_raw_json" }
      [] stage_name = "vlm_filtering" ->
             { "vlm1_filtered_json", "vlm2_filtered_json" }
      [] stage_name = "vlm_comparison" -> { "combined_json" }
      [] stage_name = "agreement_extraction" ->
             { "agreed_list_txt", "agreed_json" }
      [] stage_name = "blur_assessment" -> { "blur_csv" }
      [] stage_name = "blur_tag_filter" ->
             { "tagged_json_intermediate", "restoration_json_intermediate" }
      [] stage_name = "final_formatting" -> FinalFiles

\* the run, with every enabled step eventually taken: main() is one
\* sequential thread and every collaborator call returns or raises
FairSpec == Spec /\ WF_vars(Next)

\* C11: a run with an accepted run-only stage r leaves on disk every
\* artifact of a stage after r that was on disk before the run.
C11_RunOnlyKeepsDownstream ==
    ( /\ run_only_stage # "None"
      /\ index(run_only_stage) >= index(start_from) ) =>
        \A s \in StageNames :
            index(s) > index(run_only_stage) =>
                (ProducedBy(s) \cap disk0) \subseteq disk

\* C12: once the first stage block is reached the run reaches the cleanup
\* phase, whatever the stages do; from the moment a failure has been raised
\* the stage blocks are left and no further collaborator is called.
C12_CleanupAlwaysReached ==
    /\ (pc = "start") ~> (pc = "cleanup")
    /\ [](error # "none" => Stopped)
    /\ [][error # "none" => calls' = calls]_vars

\* the cleanup phase reached after a collaborator raised
C12_Witness ==
    /\ pc = "cleanup"
    /\ error = "CollaboratorError"
    /\ calls["compare_and_merge_vlms"].ret = "raise"

\* C13: a run in which a stage failure was raised ends with exit status 0,
\* as a run that completes does; a run rejected by the run-only ordering
\* check or by the required-input check ends with exit status 1.
C13_StageFailureExitsZero ==
    pc = "done" =>
        /\ error # "none" => exit_status = 0
        /\ ( /\ error = "none"
             /\ run_only_stage = "None"
             /\ \A c \in Collaborators : calls[c] = Nominal ) => exit_status = 0
        /\ ( /\ run_only_stage # "None"
             /\ index(run_only_stage) < index(start_from) ) => exit_status = 1
        /\ ( /\ start_from # "start"
             /\ ~(Required(start_from) \subseteq disk0) ) => exit_status = 1

\* a run ended by a collaborator's None result, exit status 0
C13_Witness ==
    /\ pc = "done"
    /\ error = "RuntimeError"
    /\ calls["filter_duplicate_detections"].ret = "None"
    /\ exit_status = 0


\* the pipeline_steps keys a stage's block reads before its first call,
\* and the keys it binds when it runs or is skipped, lines 196-440
ReadKeys(stage_name) ==
    CASE stage_name = "start" -> {}
      [] stage_name = "cropping" -> { "stage1_json" }
      [] stage_name = "bridge_stage2" -> { "crop_image_dir" }
      [] stage_name = "filter_duplicates" -> { "stage2_raw_json" }
      [] stage_name = "vlm1_recognition" ->
             { "stage2_filtered_json", "crop_image_dir" }
      [] stage_name = "vlm2_recognition" ->
             { "stage2_filtered_json", "crop_image_dir" }
      [] stage_name = "vlm_filtering" -> { "vlm1_raw_json", "vlm2_raw_json" }
      [] stage_name = "vlm_comparison" ->
             { "vlm1_filtered_json", "vlm2_filtered_json" }
      [] stage_name = "agreement_extraction" -> { "combined_json" }
      [] stage_name = "blur_assessment" -> { "agreed_list_txt", "crop_image_dir" }
      [] stage_name = "blur_tag_filter" -> { "agreed_json", "blur_csv" }
      [] stage_name = "final_formatting" ->
             { "tagged_json_intermediate", "restoration_json_intermediate" }

ProducedKeys(stage_name) ==
    CASE stage_name = "start" -> { "stage1_json" }
      [] stage_name = "cropping" -> { "crop_image_dir" }
      [] stage_name = "bridge_stage2" -> { "stage2_raw_json" }
      [] stage_name = "filter_duplicates" -> { "stage2_filtered_json" }
      [] stage_name = "vlm1_recognition" -> { "vlm1_raw_json" }
      [] stage_name = "vlm2_recognition" -> { "vlm2_raw_json" }
      [] stage_name = "vlm_filtering" ->
             { "vlm1_filtered_json", "vlm2_filtered_json" }
      [] stage_name = "vlm_comparison" -> { "combined_json" }
      [] stage_name = "agreement_extraction" ->
             { "agreed_list_txt", "agreed_json" }
      [] stage_name = "blur_assessment" -> { "blur_csv" }
      [] stage_name = "blur_tag_filter" ->
             { "tagged_json_intermediate", "restoration_json_intermediate" }
      [] stage_name = "final_formatting" ->
             { "full_dataset_final_json", "restoration_dataset_final_json" }

\* the run-only ordering check let the run through and the input check ran
InputsChecked ==
    /\ ~( run_only_stage # "None" /\ index(run_only_stage) < index(start_from) )
    /\ pc \notin { "args", "check" }

\* C14: when a run has ended right after stage k-1 completed (run-only
\* k-1, or a failure in stage k) with every collaborator up to k-1
\* succeeding, the inputs required to start from stage k are on disk, so a
\* later run with the same configuration and start_from = k passes the
\* input check.
C14_ResumableAtEveryBoundary ==
    pc = "done" =>
        \A i \in 2..Len(valid_stages) :
            ( /\ index(start_from) <= i - 1
              /\ \A c \in invoked :
                    index(StageOf(c)) <= i - 1 => calls[c] = Nominal
              /\ \/ run_only_stage = valid_stages[i - 1] /\ sys_exit = 0
                 \/ error # "none" /\ current_stage_name = valid_stages[i] ) =>
                Required(valid_stages[i]) \subseteq disk

\* C15: should_run(s) is true exactly for the stages at or after
\* start_from; no collaborator of an earlier stage is ever invoked, and a
\* run that goes through all the blocks invokes every collaborator of the
\* stages from start_from on.
C15_ShouldRunFromStart ==
    /\ \A s \in StageNames :
           should_run(s) <=> (index(s) >= index(start_from))
    /\ \A c \in invoked : index(StageOf(c)) >= index(start_from)
    /\ ( pc = "done" /\ error = "none" /\ sys_exit = -1 /\ exit_status = 0 ) =>
           \A c \in Collaborators :
               index(StageOf(c)) >= index(start_from) => c \in invoked

\* a completed run resumed at vlm_comparison
C15_Witness ==
    /\ pc = "done"
    /\ start_from = "vlm_comparison"
    /\ error = "none"
    /\ sys_exit = -1
    /\ exit_status = 0
    /\ calls["compare_and_merge_vlms"] = Nominal
    /\ calls["filter_empty_vlm_2"] = NotCalled

\* C16: after the input check of a resume run, the paths reported missing
\* are exactly the required artifacts of the start stage that are absent,
\* and the run is aborted iff that set is not empty.
C16_AllMissingReported ==
    ( InputsChecked /\ start_from # "start" ) =>
        /\ missing_logged = Required(start_from) \ disk0
        /\ (sys_exit = 1) <=> (missing_logged # {})

\* the first and the third required input are missing, the second is there
C16_Witness ==
    /\ pc = "done"
    /\ start_from = "vlm2_recognition"
    /\ "crop_images" \in disk0
    /\ missing_logged = { "stage2_filtered_json", "vlm1_raw_json" }
    /\ exit_status = 1

\* C17: the input check of a resume run passes iff every required file is
\* on disk as a regular file and every required directory is a populated
\* directory.
C17_PassesIffRegularFiles ==
    ( InputsChecked /\ start_from # "start" ) =>
        ( (sys_exit # 1) <=>
            /\ RequiredFiles(start_from) \subseteq (disk0 \ dir_at_file)
            /\ RequiredDirs(start_from) \subseteq disk0 )

\* C19: when a stage block after the first is about to begin, the keys
\* the preceding stage produces and the keys this stage reads are bound in
\* pipeline_steps.
C19_KeysBoundAtStageEntry ==
    \A i \in 2..Len(valid_stages) :
        pc = valid_stages[i] =>
            /\ \A k \in ProducedKeys(valid_stages[i - 1]) :
                   pipeline_steps[k] # Unbound
            /\ \A k \in ReadKeys(valid_stages[i]) : pipeline_steps[k] # Unbound

\* C20: pipeline_steps starts with no key bound, and no step unbinds a key
\* or changes the value of a bound key.
C20_PipelineStepsOnlyGrows ==
    /\ \A k \in Keys : pipeline_steps[k] = Unbound
    /\ [][ \A k \in Keys :
             pipeline_steps[k] # Unbound =>
                 pipeline_steps'[k] = pipeline_steps[k] ]_vars

\* keys bound by adoption and by execution in one finished run
C20_Witness ==
    /\ pc = "done"
    /\ start_from = "vlm1_recognition"
    /\ pipeline_steps["stage2_filtered_json"] = "truthy"
    /\ pipeline_steps["vlm1_raw_json"] = "falsy"
    /\ pipeline_steps["vlm2_raw_json"] = "truthy"
    /\ pipeline_steps["combined_json"] = "truthy"


\* the block of the i-th stage has been left
BlockPassed(i) ==
    \/ pc \in StageNames /\ index(pc) > i
    \/ /\ pc \in { "cleanup", "done" }
       /\ current_stage_name \in StageNames
       /\ index(current_stage_name) > i

\* C21: every stage before start_from binds its default paths without
\* looking at the disk, and the input check passes iff the inputs of the
\* start stage itself are there; so a run can pass the check and call a
\* later collaborator on a path that is not on disk (C21_Witness).
C21_SkippedStagesAdoptedUnchecked ==
    /\ \A i \in 1..Len(valid_stages) :
           ( i < index(start_from) /\ BlockPassed(i) ) =>
               \A k \in ProducedKeys(valid_stages[i]) :
                   pipeline_steps[k] = "truthy"
    /\ ( InputsChecked /\ start_from # "start" ) =>
           ( (sys_exit # 1) <=> (Required(start_from) \subseteq disk0) )

\* started at filter_duplicates with an empty crop directory, the model-1
\* runner was called on it
C21_Witness ==
    /\ start_from = "filter_duplicates"
    /\ "crop_images" \notin disk0
    /\ "crop_images" \notin disk
    /\ pipeline_steps["crop_image_dir"] = "truthy"
    /\ calls["run_vlm_recognition_1"] # NotCalled


\* the detector stages: collaborator, target path (also the key bound)
DetectorStages ==
    { [ stage |-> "start", c |-> "run_bridge_stage1",
        target |-> "stage1_json" ],
      [ stage |-> "bridge_stage2", c |-> "run_bridge_stage2",
        target |-> "stage2_raw_json" ] }

\* the detector returned without leaving its results document
DocumentAbsent(t) ==
    /\ calls[t.c] # NotCalled
    /\ calls[t.c].ret \in { "truthy", "falsy" }
    /\ ~calls[t.c].wrote

C23_RejectedRunDeletesNothing ==
    ( /\ InputsChecked
      /\ start_from # "start"
      /\ ~(Required(start_from) \subseteq disk0) ) =>
        /\ removed = {}
        /\ disk = disk0


\* where shutil.move puts a detector's results document (lines 207, 263)
MovedTo(doc) ==
    IF doc = "expected_stage1_output" THEN "stage1_json" ELSE "stage2_raw_json"

\* C24: with keep_intermediate_files true no step of any run (successful,
\* failed, run-only or rejected) deletes a file or a directory: the only
\* path that leaves the disk is a detector's results document, moved to the
\* stage's target path; the cleanup is reached, tries nothing and removes
\* nothing.
C24_KeepDeletesNothing ==
    /\ [][ keep =>
             /\ \A p \in disk \ disk' :
                    p \in DetectorDocs /\ MovedTo(p) \in disk'
             /\ pc = "cleanup" =>
                    /\ pc' = "done"
                    /\ disk' = disk
                    /\ removed' = {}
                    /\ attempted' = {} ]_vars
    /\ []( keep => disk0 \subseteq disk )

\* a full run over the leftovers of an earlier one, intermediates kept: the
\* detector directory and the earlier artifacts are there at the end
C24_Witness ==
    /\ keep
    /\ pc = "done"
    /\ start_from = "start"
    /\ calls["run_bridge_stage1"] = Nominal
    /\ calls["format_final_dataset_restoration"] = Nominal
    /\ "stage1_output_dir" \in disk
    /\ IntermediateFiles \subseteq disk0
    /\ IntermediateFiles \subseteq disk


\* C25: the cleanup is best-effort.  When it has run with intermediates
\* discarded, every enumerated file and directory that was on disk was
\* tried, whatever failed before it; what failed is still on disk and what
\* did not fail is gone; and the exit status is what it would have been:
\* the code of the SystemExit in flight, 0 otherwise.
C25_CleanupBestEffort ==
    ( pc = "done" /\ ~keep /\ InputsChecked ) =>
        /\ attempted =
             (EnumeratedIntermediates \ DetectorDocs) \cap (disk \cup removed)
        /\ delete_failed \subseteq disk
        /\ (attempted \ delete_failed) \cap disk = {}
        /\ removed \cap delete_failed = {}
        /\ exit_status = IF sys_exit >= 0 THEN sys_exit ELSE 0

\* the first listed file could not be deleted; the files after it and the
\* detector directory were deleted and the run ended with status 0
C25_Witness ==
    /\ pc = "done"
    /\ ~keep
    /\ delete_failed = { "stage1_json" }
    /\ "stage1_json" \in disk
    /\ { "stage2_raw_json", "restoration_json_intermediate",
         "stage2_output_dir" } \subseteq removed
    /\ exit_status = 0

====
